---- MODULE Spec2Model ----
(***************************************************************************)
(* Credit-card payment report for Actual Budget (cc_payment_report.py).    *)
(*                                                                         *)
(* generate_report is a single-threaded batch job: it derives a date       *)
(* window from the clock, then for each credit-card account and each       *)
(* monitored payee looks for a posted transaction and, failing that, for a *)
(* scheduled rule, and files the target under "passed" or "missing".       *)
(*                                                                         *)
(* Conventions of the model                                                *)
(*   - a Python str is a sequence of one-character strings;                *)
(*   - Python None is the record None;                                     *)
(*   - a datetime is its day ordinal, counted from 2023-01-01 (the time of *)
(*     day never reaches the report: strftime('%Y%m%d') drops it);         *)
(*   - a value that may be of several types is a record tagged by k;       *)
(*   - the float amount / 100.0 is the rational [num, den].                *)
(***************************************************************************)
EXTENDS Integers, Sequences, FiniteSets, TLC

VARIABLES
    today,                    \* datetime.now(), as a day ordinal
    accounts,                 \* get_accounts(session), in store order
    payees,                   \* the Payees table, in store order
    transactions,             \* the Transactions table, in store order
    rules,                    \* the Rules table, in store order
    monitored_payees,         \* the configured payee names
    entry,                    \* the entry point of the run: main or run_report
    faulty,                   \* whether the store may fail during the run
    pc,                       \* position inside the run
    start_date_int,
    end_date_int,
    today_int,
    credit_cards,             \* accounts kept by is_credit_card_account
    idx,                      \* index of the target the loop is at
    payment,                  \* generate_report's local `payment`
    path,                     \* matcher paths called for the current target
    cc_missing_payments,
    cc_has_payments,
    payee_missing_payments,
    payee_has_payments,
    results,                  \* the returned dict, None until the return
    output,                   \* the lines printed so far
    escaped                   \* whether an exception has left the run

store == <<today, accounts, payees, transactions, rules, monitored_payees,
           entry, faulty>>
console == <<output, escaped>>
window == <<start_date_int, end_date_int, today_int>>
lists == <<cc_missing_payments, cc_has_payments,
           payee_missing_payments, payee_has_payments>>
vars == <<today, accounts, payees, transactions, rules, monitored_payees,
          entry, faulty, output, escaped,
          pc, start_date_int, end_date_int, today_int, credit_cards, idx,
          payment, path, cc_missing_payments, cc_has_payments,
          payee_missing_payments, payee_has_payments, results>>

-----------------------------------------------------------------------------
(* Bounds of the model *)

\* datetime.now() ranges over MaxDay consecutive days in the window scenario
MaxDay == 440
\* longest Transactions table of the transaction scenarios
MaxTxns == 2
\* longest Rules table of the rule scenarios
MaxRules == 2
\* longest monitored_payees list of the payee scenarios
MaxMonitored == 2

\* timedelta(weeks=2)
Weeks == 2

-----------------------------------------------------------------------------
(* Python values *)

None == [k |-> "null"]

\* an int and a str, where the value may also be None or of another type
JInt(n) == [k |-> "int", n |-> n]
JStr(s) == [k |-> "str", s |-> s]
\* a JSON array
JList(items) == [k |-> "list", items |-> items]
\* a dict is a record tagged "dict" that holds its keys as fields
IsDict(v) == v.k = "dict"
\* d.get(key)
Get(d, key) == IF key \in DOMAIN d THEN d[key] ELSE None

\* bool(v) of a nullable str column
Truthy(v) == v # None /\ (v.k = "str" => v.s # <<>>)

Abs(n) == IF n < 0 THEN -n ELSE n

RECURSIVE SeqsUpTo(_, _)
\* all sequences over S of length at most n
SeqsUpTo(S, n) ==
    IF n = 0 THEN {<<>>}
    ELSE LET shorter == SeqsUpTo(S, n - 1)
         IN  shorter \cup {Append(s, x) : s \in shorter, x \in S}

-----------------------------------------------------------------------------
(* The calendar behind datetime, timedelta, strftime and strptime *)

IsLeap(y) == (y % 4 = 0 /\ y % 100 # 0) \/ y % 400 = 0

DaysInYear(y) == IF IsLeap(y) THEN 366 ELSE 365

DaysInMonth(y, m) ==
    IF m = 2 THEN (IF IsLeap(y) THEN 29 ELSE 28)
    ELSE IF m \in {4, 6, 9, 11} THEN 30 ELSE 31

RECURSIVE YearSplit(_, _)
YearSplit(y, n) ==
    IF n < 0 THEN YearSplit(y - 1, n + DaysInYear(y - 1))
    ELSE IF n < DaysInYear(y) THEN <<y, n>>
    ELSE YearSplit(y + 1, n - DaysInYear(y))

RECURSIVE MonthSplit(_, _, _)
MonthSplit(y, m, n) ==
    IF n < DaysInMonth(y, m) THEN <<m, n + 1>>
    ELSE MonthSplit(y, m + 1, n - DaysInMonth(y, m))

\* the calendar date of day ordinal n (n = 0 is 2023-01-01)
Civil(n) ==
    LET ys == YearSplit(2023, n)
        ms == MonthSplit(ys[1], 1, ys[2])
    IN  [year |-> ys[1], month |-> ms[1], day |-> ms[2]]

RECURSIVE DaysBeforeYear(_)
DaysBeforeYear(y) ==
    IF y = 2023 THEN 0
    ELSE IF y > 2023 THEN DaysBeforeYear(y - 1) + DaysInYear(y - 1)
    ELSE DaysBeforeYear(y + 1) - DaysInYear(y)

RECURSIVE DaysBeforeMonth(_, _)
DaysBeforeMonth(y, m) ==
    IF m <= 1 THEN 0 ELSE DaysBeforeMonth(y, m - 1) + DaysInMonth(y, m - 1)

\* the day ordinal of a calendar date
Ordinal(y, m, d) == DaysBeforeYear(y) + DaysBeforeMonth(y, m) + (d - 1)

\* today +/- timedelta(weeks=w)
MinusWeeks(n, w) == n - 7 * w
PlusWeeks(n, w) == n + 7 * w

-----------------------------------------------------------------------------
(* Decimal text *)

DigitChars == <<"0", "1", "2", "3", "4", "5", "6", "7", "8", "9">>

DigitChar(d) == DigitChars[d + 1]

IsDigit(c) == \E d \in 0..9 : DigitChars[d + 1] = c

DigitVal(c) == CHOOSE d \in 0..9 : DigitChars[d + 1] = c

RECURSIVE Pow10(_)
Pow10(w) == IF w = 0 THEN 1 ELSE 10 * Pow10(w - 1)

\* n in decimal, zero-padded to w digits (the %Y, %m, %d of strftime)
Pad(n, w) == [j \in 1..w |-> DigitChar((n \div Pow10(w - j)) % 10)]

RECURSIVE NumDigits(_)
NumDigits(n) == IF n < 10 THEN 1 ELSE 1 + NumDigits(n \div 10)

\* str(n) for n >= 0
Str(n) == Pad(n, NumDigits(n))

RECURSIVE DigitsValue(_)
DigitsValue(s) ==
    IF s = <<>> THEN 0
    ELSE 10 * DigitsValue(SubSeq(s, 1, Len(s) - 1)) + DigitVal(s[Len(s)])

\* int(s): the value of a string of decimal digits, None for what int() rejects
IntOfStr(s) ==
    IF s # <<>> /\ \A j \in 1..Len(s) : IsDigit(s[j])
    THEN JInt(DigitsValue(s)) ELSE None

\* date_obj.strftime('%Y%m%d')
Strftime(n) ==
    LET c == Civil(n) IN Pad(c.year, 4) \o Pad(c.month, 2) \o Pad(c.day, 2)

\* strftime('%Y-%m-%d'), the form in which Actual stores a rule's date
IsoDate(n) ==
    LET c == Civil(n)
    IN  Pad(c.year, 4) \o <<"-">> \o Pad(c.month, 2) \o <<"-">> \o Pad(c.day, 2)

DateToIntUnpadded(n) ==
    LET c == Civil(n)
    IN  IntOfStr(Str(c.year) \o Str(c.month) \o Str(c.day)).n

\* date_to_int: datetime -> YYYYMMDD integer
date_to_int(n) == IntOfStr(Strftime(n)).n

\* int_to_date: YYYYMMDD integer -> datetime (None where strptime raises)
int_to_date(date_int) ==
    LET s == Str(date_int)
    IN  IF Len(s) # 8 THEN None
        ELSE LET y == DigitsValue(SubSeq(s, 1, 4))
                 m == DigitsValue(SubSeq(s, 5, 6))
                 d == DigitsValue(SubSeq(s, 7, 8))
             IN  IF y >= 1 /\ m \in 1..12 /\ d >= 1 /\ d <= DaysInMonth(y, m)
                 THEN JInt(Ordinal(y, m, d)) ELSE None

-----------------------------------------------------------------------------
(* The four record types and the queries of the store                      *)
(*   Account     [id, name, balance_current]                               *)
(*   Payee       [id, name, transfer_acct, tombstone]                      *)
(*   Transaction [acct, date, payee_id, amount, notes, tombstone,          *)
(*                is_parent]                                               *)
(*   Rule        [conditions, actions, tombstone]                          *)
(* id, name, transfer_acct, payee_id and notes are JStr or None,           *)
(* balance_current is JInt or None, date and amount are integers.          *)

\* the marker every credit-card account's name starts with
CardMark == <<"$">>

StartsWith(s, prefix) ==
    Len(s) >= Len(prefix) /\ SubSeq(s, 1, Len(prefix)) = prefix

\* is_credit_card_account
is_credit_card_account(account) ==
    Truthy(account.name) /\ StartsWith(account.name.s, CardMark)

RECURSIVE Filter(_, _)
\* the elements of seq that are in the set keep, in seq's order
Filter(seq, keep) ==
    IF seq = <<>> THEN <<>>
    ELSE IF seq[1] \in keep THEN <<seq[1]>> \o Filter(Tail(seq), keep)
    ELSE Filter(Tail(seq), keep)

Range(seq) == {seq[j] : j \in 1..Len(seq)}

PaymentInfo(date, amount, notes, is_scheduled) ==
    [date |-> date, amount |-> amount, notes |-> notes,
     is_scheduled |-> is_scheduled]

\* amount / 100.0
Div100(amount) == [num |-> amount, den |-> 100]

FNoAbs(x) == x

\* abs(x) of a float
FAbs(x) == [num |-> Abs(x.num), den |-> x.den]

\* session.query(Payees).filter(Payees.id == payee_id).first()
PayeeById(payee_id) ==
    LET found == Filter(payees, {p \in Range(payees) : p.id = payee_id})
    IN  IF found = <<>> THEN None ELSE found[1]

\* the query of find_payment_in_range, in the order the store returns it
AccountTransactions(account, start, end) ==
    Filter(transactions,
           {t \in Range(transactions) :
               /\ t.acct = account.id
               /\ t.date >= start
               /\ t.date <= end
               /\ t.tombstone = 0
               /\ t.is_parent = 0})

\* the test find_payment_in_range applies to each transaction of the query
IsTransferIn(trans, account) ==
    /\ Truthy(trans.payee_id)
    /\ LET payee == PayeeById(trans.payee_id)
       IN  /\ payee # None
           /\ Truthy(payee.transfer_acct)
           /\ payee.transfer_acct # account.id
    /\ trans.amount > 0

FindPaymentEarliest(account, start, end) ==
    LET txs == AccountTransactions(account, start, end)
        hits == {t \in Range(txs) : IsTransferIn(t, account)}
    IN  IF hits = {} THEN None
        ELSE LET t == CHOOSE t \in hits : \A u \in hits : t.date <= u.date
             IN  PaymentInfo(t.date, Div100(t.amount), t.notes, FALSE)

FindPaymentAnySign(account, start, end) ==
    LET txs == AccountTransactions(account, start, end)
        hits == Filter(txs, {t \in Range(txs) :
                                IsTransferIn([t EXCEPT !.amount = 1], account)})
    IN  IF hits = <<>> THEN None
        ELSE PaymentInfo(hits[1].date, Div100(hits[1].amount), hits[1].notes,
                         FALSE)

\* find_payment_in_range
find_payment_in_range(account, start, end) ==
    LET txs == AccountTransactions(account, start, end)
        hits == Filter(txs, {t \in Range(txs) : IsTransferIn(t, account)})
    IN  IF hits = <<>> THEN None
        ELSE PaymentInfo(hits[1].date, Div100(hits[1].amount), hits[1].notes,
                         FALSE)

LowerChar(c) ==
    CASE c = "T" -> "t"
      [] c = "A" -> "a"
      [] OTHER -> c

\* s.lower()
Lower(s) == [j \in 1..Len(s) |-> LowerChar(s[j])]

\* sub in s
Contains(s, sub) ==
    \E j \in 0..(Len(s) - Len(sub)) : SubSeq(s, j + 1, j + Len(sub)) = sub

\* the name test of both payee searches
PayeeNameMatches(p, payee_name) ==
    Truthy(p.name) /\ Contains(Lower(p.name.s), Lower(payee_name.s))

MatchingPayeeAnyTombstone(payee_name) ==
    LET found == Filter(payees, {p \in Range(payees) :
                                    PayeeNameMatches(p, payee_name)})
    IN  IF found = <<>> THEN None ELSE found[1]

\* the payee a monitored name resolves to: the first non-deleted match
MatchingPayee(payee_name) ==
    LET live == Filter(payees, {p \in Range(payees) : p.tombstone = 0})
        found == Filter(live, {p \in Range(live) :
                                  PayeeNameMatches(p, payee_name)})
    IN  IF found = <<>> THEN None ELSE found[1]

\* the query of find_payee_payment_in_range, before its order_by
PayeeTransactions(payee, start, end) ==
    {t \in Range(transactions) :
        /\ t.payee_id = payee.id
        /\ t.date >= start
        /\ t.date <= end
        /\ t.amount < 0
        /\ t.tombstone = 0
        /\ t.is_parent = 0}

Oldest(txs) == {t \in txs : \A u \in txs : u.date >= t.date}

\* order_by(date.desc()) ... [0]: a row of the greatest date (the order of
\* rows of equal date is the store's)
MostRecent(txs) == {t \in txs : \A u \in txs : u.date <= t.date}

\* find_payee_payment_in_range: the set of values it can return
find_payee_payment_in_range(payee_name, start, end) ==
    LET matching_payee == MatchingPayee(payee_name)
    IN  IF matching_payee = None THEN {None}
        ELSE LET txs == PayeeTransactions(matching_payee, start, end)
             IN  IF txs = {} THEN {None}
                 ELSE {PaymentInfo(t.date, FAbs(Div100(t.amount)), t.notes,
                                   FALSE) : t \in MostRecent(txs)}

-----------------------------------------------------------------------------
(* Schedule rules                                                          *)
(* A rule's conditions and actions columns are None or [k |-> "text",      *)
(* json |-> v], v being the value json.loads returns or Invalid where it   *)
(* raises. A raised exception is the value Raise.                          *)

True == [k |-> "bool", b |-> TRUE]
False == [k |-> "bool", b |-> FALSE]
Invalid == [k |-> "invalid"]
Raise == [k |-> "raise"]
NoMatch == [k |-> "nomatch"]

Text(v) == [k |-> "text", json |-> v]

\* the field names and operation names the scans compare with
F_date == JStr(<<"d", "a", "t", "e">>)
F_amount == JStr(<<"a", "m", "o", "u", "n", "t">>)
F_acct == JStr(<<"a", "c", "c", "t">>)
F_description ==
    JStr(<<"d", "e", "s", "c", "r", "i", "p", "t", "i", "o", "n">>)
F_notes == JStr(<<"n", "o", "t", "e", "s">>)
Op_link_schedule ==
    JStr(<<"l", "i", "n", "k", "-", "s", "c", "h", "e", "d", "u", "l", "e">>)
Op_set == JStr(<<"s", "e", "t">>)

\* json.loads(column) if column else []
LoadColumn(column) ==
    IF column = None THEN JList(<<>>)
    ELSE IF column.json = Invalid THEN Raise
    ELSE column.json

\* the elements (as a list) a for loop draws from v: a list's items, a str's characters,
\* a dict's keys (the first one is enough: a str has no get, so the loop body
\* raises on it); iterating an int or None raises TypeError
Iterate(v) ==
    CASE v = Raise -> Raise
      [] v.k = "list" -> v
      [] v.k = "str" -> JList([j \in 1..Len(v.s) |-> JStr(<<v.s[j]>>)])
      [] v.k = "dict" ->
            IF DOMAIN v = {"k"} THEN JList(<<>>)
            ELSE JList(<<JStr(<<CHOOSE key \in DOMAIN v \ {"k"} : TRUE>>)>>)
      [] OTHER -> Raise

\* value.replace('-', '')
RECURSIVE RemoveDashes(_)
RemoveDashes(s) ==
    IF s = <<>> THEN <<>>
    ELSE IF s[1] = "-" THEN RemoveDashes(Tail(s))
    ELSE <<s[1]>> \o RemoveDashes(Tail(s))

\* the date branch of the condition loop: a str is parsed (a failed parse
\* leaves rule_date as it was), an int is taken, anything else is ignored
DateOfValue(value, rule_date) ==
    IF value.k = "str"
    THEN LET parsed == IntOfStr(RemoveDashes(value.s))
         IN  IF parsed = None THEN rule_date ELSE parsed
    ELSE IF value.k = "int" THEN value
    ELSE rule_date

RECURSIVE ScanConditions(_, _, _)
\* the loop over a rule's conditions: [date, amount, ident] or Raise.
\* ident_field is 'acct' for an account, 'description' for a payee
ScanConditions(conditions, ident_field, acc) ==
    IF conditions = <<>> THEN acc
    ELSE LET cond == conditions[1]
         IN  IF ~IsDict(cond) THEN Raise
             ELSE LET field == Get(cond, "field")
                      value == Get(cond, "value")
                      next ==
                        IF field = F_date
                        THEN [acc EXCEPT !.date = DateOfValue(value, acc.date)]
                        ELSE IF field = F_amount
                        THEN [acc EXCEPT !.amount = value]
                        ELSE IF field = ident_field
                        THEN [acc EXCEPT !.ident = value]
                        ELSE acc
                  IN  ScanConditions(Tail(conditions), ident_field, next)

\* json.loads of the conditions and the loop over them
RuleConditions(rule, ident_field) ==
    LET conditions == Iterate(LoadColumn(rule.conditions))
    IN  IF conditions = Raise THEN Raise
        ELSE ScanConditions(conditions.items, ident_field,
                            [date |-> None, amount |-> None, ident |-> None])

\* rule_amount != 0
NotZero(v) == v.k = "int" => v.n # 0

DatedNotPast(c, target_id, start, end, today_key) ==
    /\ c.ident = target_id
    /\ c.date # None
    /\ c.amount # None
    /\ start <= c.date.n /\ c.date.n <= end
    /\ c.date.n >= today_key
    /\ NotZero(c.amount)

\* the first if of both scans
ConditionsMatch(c, target_id, start, end, today_key) ==
    /\ c.ident = target_id
    /\ c.date # None
    /\ c.amount # None
    /\ start <= c.date.n /\ c.date.n <= end
    /\ c.date.n > today_key
    /\ NotZero(c.amount)

RECURSIVE AnyLinkSchedule(_)
\* any(action.get('op') == 'link-schedule' for action in actions)
AnyLinkSchedule(actions) ==
    IF actions = <<>> THEN False
    ELSE IF ~IsDict(actions[1]) THEN Raise
    ELSE IF Get(actions[1], "op") = Op_link_schedule THEN True
    ELSE AnyLinkSchedule(Tail(actions))

RECURSIVE NotesOf(_, _)
\* the loop that extracts the notes: the last 'set notes' value, or Raise
NotesOf(actions, notes) ==
    IF actions = <<>> THEN notes
    ELSE IF ~IsDict(actions[1]) THEN Raise
    ELSE IF Get(actions[1], "op") = Op_set /\ Get(actions[1], "field") = F_notes
    THEN NotesOf(Tail(actions), Get(actions[1], "value"))
    ELSE NotesOf(Tail(actions), notes)

\* rule_amount > 0 and rule_amount < 0: comparing a non-number raises
Positive(v) == IF v.k # "int" THEN Raise ELSE IF v.n > 0 THEN True ELSE False
Negative(v) == IF v.k # "int" THEN Raise ELSE IF v.n < 0 THEN True ELSE False

\* the body of find_scheduled_payment_in_range under its first if
AcctRuleActions(c, actions) ==
    LET has_schedule == AnyLinkSchedule(actions)
    IN  IF has_schedule = Raise THEN Raise
        ELSE IF has_schedule = False THEN NoMatch
        ELSE IF Positive(c.amount) = Raise THEN Raise
        ELSE IF Positive(c.amount) = False THEN NoMatch
        ELSE LET notes == NotesOf(actions, None)
             IN  IF notes = Raise THEN Raise
                 ELSE PaymentInfo(c.date.n, Div100(c.amount.n), notes, TRUE)

\* the body of find_scheduled_payee_payment_in_range under its first if
PayeeRuleActions(c, actions) ==
    LET has_schedule == AnyLinkSchedule(actions)
    IN  IF has_schedule = Raise THEN Raise
        ELSE IF has_schedule = False THEN NoMatch
        ELSE IF Negative(c.amount) = Raise THEN Raise
        ELSE IF Negative(c.amount) = False THEN NoMatch
        ELSE LET notes == NotesOf(actions, None)
             IN  IF notes = Raise THEN Raise
                 ELSE PaymentInfo(c.date.n, FAbs(Div100(c.amount.n)), notes,
                                  TRUE)

\* one pass of the loop body of find_scheduled_payment_in_range:
\* a PaymentInfo (the return), NoMatch (fall through) or Raise
AcctRuleOutcome(rule, account, start, end, today_key) ==
    LET c == RuleConditions(rule, F_acct)
    IN  IF c = Raise THEN Raise
        ELSE IF ~ConditionsMatch(c, account.id, start, end, today_key)
        THEN NoMatch
        ELSE LET actions == Iterate(LoadColumn(rule.actions))
             IN  IF actions = Raise THEN Raise
                 ELSE AcctRuleActions(c, actions.items)

\* one pass of the loop body of find_scheduled_payee_payment_in_range
PayeeRuleOutcome(rule, matching_payee, start, end, today_key) ==
    LET c == RuleConditions(rule, F_description)
    IN  IF c = Raise THEN Raise
        ELSE IF ~ConditionsMatch(c, matching_payee.id, start, end, today_key)
        THEN NoMatch
        ELSE LET actions == Iterate(LoadColumn(rule.actions))
             IN  IF actions = Raise THEN Raise
                 ELSE PayeeRuleActions(c, actions.items)

Uncaught(outcome) == outcome

\* try: ... except Exception: continue
Caught(outcome) == IF outcome = Raise THEN NoMatch ELSE outcome

\* session.query(Rules).filter(Rules.tombstone == 0).all()
LiveRules == Filter(rules, {r \in Range(rules) : r.tombstone = 0})

RECURSIVE ScanAcctRules(_, _, _, _, _)
ScanAcctRules(rs, account, start, end, today_key) ==
    IF rs = <<>> THEN None
    ELSE LET o == Caught(AcctRuleOutcome(rs[1], account, start, end, today_key))
         IN  IF o = NoMatch
             THEN ScanAcctRules(Tail(rs), account, start, end, today_key)
             ELSE o

\* find_scheduled_payment_in_range: a PaymentInfo, None, or Raise if an
\* exception leaves the function
find_scheduled_payment_in_range(account, start, end, today_key) ==
    ScanAcctRules(LiveRules, account, start, end, today_key)

RECURSIVE ScanPayeeRules(_, _, _, _, _)
ScanPayeeRules(rs, matching_payee, start, end, today_key) ==
    IF rs = <<>> THEN None
    ELSE LET o == Caught(PayeeRuleOutcome(rs[1], matching_payee, start, end,
                                          today_key))
         IN  IF o = NoMatch
             THEN ScanPayeeRules(Tail(rs), matching_payee, start, end, today_key)
             ELSE o

\* find_scheduled_payee_payment_in_range
find_scheduled_payee_payment_in_range(payee_name, start, end, today_key) ==
    LET matching_payee == MatchingPayee(payee_name)
    IN  IF matching_payee = None THEN None
        ELSE ScanPayeeRules(LiveRules, matching_payee, start, end, today_key)

-----------------------------------------------------------------------------
(* generate_report *)

AccountReport(account_name, has_payment, payment_info) ==
    [account_name |-> account_name, has_payment |-> has_payment,
     payment_info |-> payment_info]

PayeeReport(payee_name, has_payment, payment_info) ==
    [payee_name |-> payee_name, has_payment |-> has_payment,
     payment_info |-> payment_info]

\* a line generate_report prints while it works, before any report
Progress(what, value) == [kind |-> "progress", what |-> what, value |-> value]

AlwaysScheduled(p) == TRUE

\* `if not payment:` (a PaymentInfo is always truthy)
NeedsScheduled(p) == p = None

AnyBalance(account) == TRUE

\* account.balance_current is not None and account.balance_current != 0
HasBalance(account) ==
    account.balance_current # None /\ account.balance_current.n # 0

\* today, start_date, end_date and their integer keys
ComputeWindow ==
    /\ pc = "window"
    /\ start_date_int' = date_to_int(MinusWeeks(today, Weeks))
    /\ end_date_int' = date_to_int(PlusWeeks(today, Weeks))
    /\ today_int' = date_to_int(today)
    /\ pc' = "connect"
    /\ output' = output \o
          << Progress("window", <<IsoDate(MinusWeeks(today, Weeks)),
                                  IsoDate(PlusWeeks(today, Weeks))>>),
             Progress("run date", <<IsoDate(today)>>) >>
    /\ UNCHANGED <<escaped, store, credit_cards, idx, payment, path, lists,
                   results>>

\* accounts = get_accounts(...); credit_cards = [...]
SelectAccounts ==
    /\ pc = "connect"
    /\ credit_cards' =
         Filter(accounts, {a \in Range(accounts) : is_credit_card_account(a)})
    /\ idx' = 1
    /\ pc' = "cc_loop"
    /\ output' = Append(output, Progress("credit cards", <<Str(Len(credit_cards'))>>))
    /\ UNCHANGED <<escaped, store, window, payment, path, lists, results>>

\* payment = find_payment_in_range(account, ...)
AccountPosted ==
    /\ pc = "cc_loop"
    /\ idx <= Len(credit_cards)
    /\ payment' = find_payment_in_range(credit_cards[idx], start_date_int,
                                        end_date_int)
    /\ path' = <<"posted">>
    /\ pc' = "cc_check"
    /\ UNCHANGED <<console, store, window, credit_cards, idx, lists, results>>

\* if not payment: payment = find_scheduled_payment_in_range(account, ...)
AccountScheduled ==
    /\ pc = "cc_check"
    /\ NeedsScheduled(payment)
    /\ LET r == find_scheduled_payment_in_range(credit_cards[idx],
                    start_date_int, end_date_int, today_int)
       IN  IF r = Raise
           THEN pc' = "raised" /\ UNCHANGED payment
           ELSE pc' = "cc_file" /\ payment' = r
    /\ path' = Append(path, "scheduled")
    /\ UNCHANGED <<console, store, window, credit_cards, idx, lists, results>>

AccountKeepPosted ==
    /\ pc = "cc_check"
    /\ ~NeedsScheduled(payment)
    /\ pc' = "cc_file"
    /\ UNCHANGED <<console, store, window, credit_cards, idx, payment, path, lists,
                   results>>

\* report = AccountReport(...); append it to one list or to none
AccountFile ==
    /\ pc = "cc_file"
    /\ LET account == credit_cards[idx]
           report == AccountReport(account.name, payment # None, payment)
       IN  IF payment # None
           THEN /\ cc_has_payments' = Append(cc_has_payments, report)
                /\ UNCHANGED cc_missing_payments
           ELSE IF HasBalance(account)
           THEN /\ cc_missing_payments' = Append(cc_missing_payments, report)
                /\ UNCHANGED cc_has_payments
           ELSE UNCHANGED <<cc_missing_payments, cc_has_payments>>
    /\ idx' = idx + 1
    /\ pc' = "cc_loop"
    /\ UNCHANGED <<console, store, window, credit_cards, payment, path,
                   payee_missing_payments, payee_has_payments, results>>

\* the account loop is over; `if monitored_payees:`
AccountsDone ==
    /\ pc = "cc_loop"
    /\ idx > Len(credit_cards)
    /\ idx' = 1
    /\ pc' = IF monitored_payees # <<>> THEN "payee_loop" ELSE "return"
    /\ output' = IF monitored_payees # <<>>
                 THEN Append(output,
                             Progress("payees", <<Str(Len(monitored_payees))>>))
                 ELSE output
    /\ UNCHANGED <<escaped, store, window, credit_cards, payment, path, lists,
                   results>>

\* payment = find_payee_payment_in_range(payee_name, ...)
PayeePosted ==
    /\ pc = "payee_loop"
    /\ idx <= Len(monitored_payees)
    /\ payment' \in find_payee_payment_in_range(monitored_payees[idx],
                        start_date_int, end_date_int)
    /\ path' = <<"posted">>
    /\ pc' = "payee_check"
    /\ UNCHANGED <<console, store, window, credit_cards, idx, lists, results>>

\* if not payment: payment = find_scheduled_payee_payment_in_range(...)
PayeeScheduled ==
    /\ pc = "payee_check"
    /\ NeedsScheduled(payment)
    /\ LET r == find_scheduled_payee_payment_in_range(monitored_payees[idx],
                    start_date_int, end_date_int, today_int)
       IN  IF r = Raise
           THEN pc' = "raised" /\ UNCHANGED payment
           ELSE pc' = "payee_file" /\ payment' = r
    /\ path' = Append(path, "scheduled")
    /\ UNCHANGED <<console, store, window, credit_cards, idx, lists, results>>

PayeeKeepPosted ==
    /\ pc = "payee_check"
    /\ ~NeedsScheduled(payment)
    /\ pc' = "payee_file"
    /\ UNCHANGED <<console, store, window, credit_cards, idx, payment, path, lists,
                   results>>

\* report = PayeeReport(...); append it to passed or to missing
PayeeFile ==
    /\ pc = "payee_file"
    /\ LET report == PayeeReport(monitored_payees[idx], payment # None, payment)
       IN  IF payment # None
           THEN /\ payee_has_payments' = Append(payee_has_payments, report)
                /\ UNCHANGED payee_missing_payments
           ELSE /\ payee_missing_payments' =
                       Append(payee_missing_payments, report)
                /\ UNCHANGED payee_has_payments
    /\ idx' = idx + 1
    /\ pc' = "payee_loop"
    /\ UNCHANGED <<console, store, window, credit_cards, payment, path,
                   cc_missing_payments, cc_has_payments, results>>

PayeesDone ==
    /\ pc = "payee_loop"
    /\ idx > Len(monitored_payees)
    /\ pc' = "return"
    /\ UNCHANGED <<console, store, window, credit_cards, idx, payment, path, lists,
                   results>>

\* return {'cc_missing': ..., 'cc_passed': ..., ...}
Return ==
    /\ pc = "return"
    /\ results' = [cc_missing |-> cc_missing_payments,
                   cc_passed |-> cc_has_payments,
                   payee_missing |-> payee_missing_payments,
                   payee_passed |-> payee_has_payments]
    /\ pc' = "done"
    /\ output' = Append(output, Progress("blank", <<>>))
    /\ UNCHANGED <<escaped, store, window, credit_cards, idx, payment, path,
                   lists>>

-----------------------------------------------------------------------------
(* print_report and the two entry points                                   *)

\* a line print_report prints
ReportLine(what, value) == [kind |-> "report", what |-> what, value |-> value]

\* the line main() prints when it catches an exception
ErrorLine == [kind |-> "error", what |-> "error generating report",
              value |-> <<>>]

RECURSIVE Grouped(_)
\* the ',' of the format: decimal digits in groups of three
Grouped(n) ==
    IF n < 1000 THEN Str(n)
    ELSE Grouped(n \div 1000) \o <<",">> \o Pad(n % 1000, 3)

\* f"${amount:,.2f}" of amount = cents / 100.0
Money(amount) ==
    LET cents == Abs(amount.num)
    IN  (IF amount.num < 0 THEN <<"-">> ELSE <<>>)
        \o Grouped(cents \div 100) \o <<".">> \o Pad(cents % 100, 2)

\* the line of one found payment: name | date | amount, marker, notes
FoundLine(name, info, date_obj) ==
    ReportLine("found",
               [name |-> name, date_str |-> IsoDate(date_obj),
                amount |-> Money(info.amount),
                scheduled_marker |-> info.is_scheduled,
                notes_str |-> IF Truthy(info.notes) THEN info.notes
                              ELSE None])

MissingLines(names) ==
    [j \in 1..Len(names) |-> ReportLine("missing", names[j])]

RECURSIVE FoundLines(_, _)
\* the loop over a passed list: one line per report, cut short where
\* int_to_date raises
FoundLines(names, reports) ==
    IF reports = <<>> THEN [lines |-> <<>>, raised |-> FALSE]
    ELSE LET info == reports[1].payment_info
             date_obj == int_to_date(info.date)
         IN  IF date_obj = None THEN [lines |-> <<>>, raised |-> TRUE]
             ELSE LET rest == FoundLines(Tail(names), Tail(reports))
                  IN  [lines |-> <<FoundLine(names[1], info, date_obj.n)>>
                                    \o rest.lines,
                       raised |-> rest.raised]

AccountNames(reports) ==
    [j \in 1..Len(reports) |-> reports[j].account_name]

NamesOfPayees(reports) ==
    [j \in 1..Len(reports) |-> reports[j].payee_name]

\* one section's body: the missing block, then the found block
Section(missing, passed) ==
    LET found == FoundLines(passed.names, passed.reports)
    IN  [lines |-> (IF missing # <<>>
                    THEN <<ReportLine("missing header", <<>>)>>
                         \o MissingLines(missing)
                    ELSE <<>>)
                   \o (IF passed.reports # <<>>
                       THEN <<ReportLine("found header", <<>>)>> \o found.lines
                       ELSE <<>>),
         raised |-> found.raised]

\* print_report: the lines it prints, and whether it raised before the end
print_report(res) ==
    LET head == << ReportLine("rule", <<>>), ReportLine("title", <<>>),
                   ReportLine("rule", <<>>), ReportLine("blank", <<>>),
                   ReportLine("credit cards", <<>>),
                   ReportLine("dashes", <<>>) >>
        cc == Section(AccountNames(res.cc_missing),
                      [names |-> AccountNames(res.cc_passed),
                       reports |-> res.cc_passed])
        none == IF res.cc_missing = <<>> /\ res.cc_passed = <<>>
                THEN <<ReportLine("no accounts", <<>>)>> ELSE <<>>
        py == Section(NamesOfPayees(res.payee_missing),
                      [names |-> NamesOfPayees(res.payee_passed),
                       reports |-> res.payee_passed])
        payee == IF res.payee_missing # <<>> \/ res.payee_passed # <<>>
                 THEN << ReportLine("payees", <<>>),
                         ReportLine("dashes", <<>>) >> \o py.lines
                 ELSE <<>>
    IN  IF cc.raised THEN [lines |-> head \o cc.lines, raised |-> TRUE]
        ELSE IF py.raised
        THEN [lines |-> head \o cc.lines \o none \o payee, raised |-> TRUE]
        ELSE [lines |-> head \o cc.lines \o none \o payee
                          \o <<ReportLine("footer", <<>>)>>,
              raised |-> FALSE]

\* connecting to the store or one of its queries raises inside
\* generate_report, which has no handler around them
StoreFails ==
    /\ faulty
    /\ \/ pc = "connect"
       \/ pc = "cc_loop" /\ idx <= Len(credit_cards)
       \/ pc = "cc_check" /\ NeedsScheduled(payment)
       \/ pc = "payee_loop" /\ idx <= Len(monitored_payees)
       \/ pc = "payee_check" /\ NeedsScheduled(payment)
    /\ pc' = "failed"
    /\ UNCHANGED <<console, store, window, credit_cards, idx, payment, path,
                   lists, results>>

\* the statement after generate_report(...) in both entry points
PrintReport ==
    /\ pc = "done"
    /\ LET printed == print_report(results)
       IN  /\ output' = output \o printed.lines
           /\ pc' = IF printed.raised THEN "print_failed" ELSE "exited"
    /\ UNCHANGED <<escaped, store, window, credit_cards, idx, payment, path,
                   lists, results>>

\* except Exception without a re-raise
Swallowed(out) == [output |-> Append(out, ErrorLine), escaped |-> FALSE]

\* main(): except Exception as e: print(...); raise
MainHandler(out) == [output |-> Append(out, ErrorLine), escaped |-> TRUE]

\* run_report.py has no handler: the exception leaves as it is
NoHandler(out) == [output |-> out, escaped |-> TRUE]

\* an exception raised under the entry point reaches its handler, if any,
\* and ends the run
ExceptionLeaves ==
    /\ pc \in {"failed", "raised", "print_failed"}
    /\ LET after == IF entry = "main" THEN MainHandler(output)
                    ELSE NoHandler(output)
       IN  /\ output' = after.output
           /\ escaped' = after.escaped
    /\ pc' = "exited"
    /\ UNCHANGED <<store, window, credit_cards, idx, payment, path, lists,
                   results>>

Next ==
    \/ ComputeWindow
    \/ SelectAccounts
    \/ AccountPosted
    \/ AccountScheduled
    \/ AccountKeepPosted
    \/ AccountFile
    \/ AccountsDone
    \/ PayeePosted
    \/ PayeeScheduled
    \/ PayeeKeepPosted
    \/ PayeeFile
    \/ PayeesDone
    \/ Return
    \/ StoreFails
    \/ PrintReport
    \/ ExceptionLeaves

-----------------------------------------------------------------------------
(* The stores and clocks the run is checked on *)

A1 == JStr(<<"a", "1">>)
A2 == JStr(<<"a", "2">>)
P_other == JStr(<<"p", "1">>)
P_self == JStr(<<"p", "2">>)
P_shop == JStr(<<"p", "3">>)
P_gone == JStr(<<"p", "4">>)
P_absent == JStr(<<"p", "9">>)

\* the clock of every scenario but the window scenario: 2024-03-05
Day0 == Ordinal(2024, 3, 5)

Key(offset) == date_to_int(Day0 + offset)

\* dates around the window [Day0 - 14, Day0 + 14]
NearOffsets == {0 - 15, 0 - 14, 0, 1, 14, 15}

Account(id, name, balance) ==
    [id |-> id, name |-> name, balance_current |-> balance]

Payee(id, name, transfer_acct, tombstone) ==
    [id |-> id, name |-> name, transfer_acct |-> transfer_acct,
     tombstone |-> tombstone]

Transaction(acct, date, payee_id, amount) ==
    [acct |-> acct, date |-> date, payee_id |-> payee_id, amount |-> amount,
     notes |-> None, tombstone |-> 0, is_parent |-> 0]

Rule(conditions, actions) ==
    [conditions |-> conditions, actions |-> actions, tombstone |-> 0]

Cond(field, value) ==
    [k |-> "dict", op |-> JStr(<<"i", "s">>), field |-> field, value |-> value]

ActLink == [k |-> "dict", op |-> Op_link_schedule, value |-> JStr(<<"s", "1">>)]

ActNotes(value) ==
    [k |-> "dict", op |-> Op_set, field |-> F_notes, value |-> value]

Visa == Account(A1, JStr(<<"$", "V">>), JInt(0 - 5000))
Checking == Account(A2, JStr(<<"C">>), JInt(90000))

Target == JStr(<<"T", "a">>)

BasePayees ==
    << Payee(P_other, JStr(<<"C">>), A2, 0),
       Payee(P_self, JStr(<<"$", "V">>), A1, 0),
       Payee(P_shop, Target, None, 0),
       Payee(P_gone, JStr(<<"X">>), A2, 1) >>

\* a payment into the card, and a payment out to the monitored payee
CardPayment == Transaction(A1, Key(0), P_other, 5000)
ShopPayment == Transaction(A2, Key(0), P_shop, 0 - 2500)

CardRule ==
    Rule(Text(JList(<< Cond(F_date, JStr(IsoDate(Day0 + 5))),
                       Cond(F_amount, JInt(7000)),
                       Cond(F_acct, A1) >>)),
         Text(JList(<<ActLink>>)))

ShopRule ==
    Rule(Text(JList(<< Cond(F_date, JStr(IsoDate(Day0 + 5))),
                       Cond(F_amount, JInt(0 - 3500)),
                       Cond(F_description, P_shop) >>)),
         Text(JList(<<ActLink>>)))

\* transactions that differ from CardPayment in at most one column
CardTxnsNear ==
    {CardPayment}
    \cup {[CardPayment EXCEPT !.date = Key(o)] : o \in NearOffsets}
    \cup {[CardPayment EXCEPT !.acct = A2]}
    \cup {[CardPayment EXCEPT !.payee_id = x] :
            x \in {None, P_self, P_shop, P_gone, P_absent}}
    \cup {[CardPayment EXCEPT !.amount = x] : x \in {0 - 5000, 0, 1}}
    \cup {[CardPayment EXCEPT !.tombstone = 1]}
    \cup {[CardPayment EXCEPT !.is_parent = 1]}
    \cup {[CardPayment EXCEPT !.notes = JStr(<<"n">>)]}

\* every combination of the columns, for a table of one transaction
CardTxnsAll ==
    {[acct |-> a, date |-> Key(o), payee_id |-> x, amount |-> m,
      notes |-> None, tombstone |-> d, is_parent |-> sp] :
        a \in {A1, A2}, o \in {0 - 15, 0 - 14, 14, 15},
        x \in {None, P_other, P_self, P_shop},
        m \in {0 - 5000, 0, 5000}, d \in {0, 1}, sp \in {0, 1}}

\* transactions that differ from ShopPayment in at most one column
ShopTxnsNear ==
    {ShopPayment}
    \cup {[ShopPayment EXCEPT !.date = Key(o)] : o \in NearOffsets}
    \cup {[ShopPayment EXCEPT !.payee_id = x] : x \in {None, P_other}}
    \cup {[ShopPayment EXCEPT !.amount = x] : x \in {2500, 0, 0 - 1}}
    \cup {[ShopPayment EXCEPT !.tombstone = 1]}
    \cup {[ShopPayment EXCEPT !.is_parent = 1]}
    \cup {[ShopPayment EXCEPT !.acct = A1]}

\* a rule from its date, amount and target conditions and its actions column
MkRule(date_conds, amount_conds, ident_conds, actions) ==
    Rule(Text(JList(date_conds \o amount_conds \o ident_conds)), actions)

Garbage == JStr(<<"x">>)
Recurrence == [k |-> "dict", frequency |-> JStr(<<"m">>)]

DateConds(good) ==
    {<<Cond(F_date, JStr(IsoDate(Day0 + o)))>> :
        o \in {0 - 14, 0 - 1, 0, 1, 14, 15}}
    \cup {<<Cond(F_date, JInt(Key(o)))>> : o \in {0, 5}}
    \cup {<<Cond(F_date, v)>> : v \in {Garbage, Recurrence, None}}
    \cup {<<>>, good \o <<Cond(F_date, Garbage)>>,
          good \o <<Cond(F_date, JStr(IsoDate(Day0)))>>}

AmountConds(amount) ==
    {<<Cond(F_amount, v)>> :
        v \in {JInt(0), JInt(0 - amount), JInt(amount \div Abs(amount)),
               JStr(<<"7">>), Recurrence, None}}
    \cup {<<>>}

IdentConds(field, other) ==
    {<<Cond(field, other)>>, <<Cond(field, None)>>, <<>>}

ActionColumns ==
    {None, Text(Invalid), Text(JInt(5)), Text(ActLink)}
    \cup {Text(JList(a)) :
            a \in {<<>>, <<ActNotes(JStr(<<"n">>))>>,
                   <<ActNotes(JStr(<<"n">>)), ActLink>>,
                   <<ActLink, ActNotes(JStr(<<"n">>)), ActNotes(JStr(<<"m">>))>>,
                   <<ActLink, Garbage>>, <<Garbage, ActLink>>}}

\* rules that differ in one place from a rule scheduled for the target in
\* five days: ident_field names the target, amount is the scheduled amount
RulesNear(ident_field, target_id, other_id, amount) ==
    LET d == <<Cond(F_date, JStr(IsoDate(Day0 + 5)))>>
        m == <<Cond(F_amount, JInt(amount))>>
        t == <<Cond(ident_field, target_id)>>
        a == Text(JList(<<ActLink>>))
        good == MkRule(d, m, t, a)
    IN  {good, [good EXCEPT !.tombstone = 1]}
        \cup {MkRule(x, m, t, a) : x \in DateConds(d)}
        \cup {MkRule(d, x, t, a) : x \in AmountConds(amount)}
        \cup {MkRule(d, m, x, a) : x \in IdentConds(ident_field, other_id)}
        \cup {MkRule(d, m, t, x) : x \in ActionColumns}
        \cup {Rule(x, a) :
                x \in {None, Text(Invalid), Text(JInt(5)), Text(None),
                       Text(Cond(ident_field, target_id)),
                       Text(JList(d \o m \o t \o <<Garbage>>))}}

\* rules that stand before the rule of interest in the table
RulesBefore(ident_field, target_id, amount) ==
    LET d == <<Cond(F_date, JStr(IsoDate(Day0 + 5)))>>
        m == <<Cond(F_amount, JInt(amount))>>
        t == <<Cond(ident_field, target_id)>>
        a == Text(JList(<<ActLink>>))
    IN  {Rule(Text(Invalid), a),
         Rule(Text(JList(<<Garbage>> \o d \o m \o t)), a),
         MkRule(d, <<Cond(F_amount, Garbage)>>, t, a),
         MkRule(d, m, t, Text(JList(<<ActLink, Garbage>>))),
         MkRule(d, m, t, Text(Invalid)),
         MkRule(<<Cond(F_date, JStr(IsoDate(Day0 + 9)))>>, m, t, a)}

RuleTables(ident_field, target_id, other_id, amount) ==
    {before \o last :
        before \in SeqsUpTo(RulesBefore(ident_field, target_id, amount),
                            MaxRules - 1),
        last \in {<<>>} \cup
                 {<<r>> : r \in RulesNear(ident_field, target_id, other_id,
                                          amount)}}

\* the Rules table varies, for the scheduled path of an account
CardRuleScenario ==
    /\ today = Day0
    /\ accounts = <<Visa>>
    /\ payees = BasePayees
    /\ transactions \in {<<>>, <<CardPayment>>}
    /\ rules \in RuleTables(F_acct, A1, A2, 7000)
    /\ monitored_payees = <<>>

\* the Rules table varies, for the scheduled path of a payee
ShopRuleScenario ==
    /\ today = Day0
    /\ accounts = <<>>
    /\ payees = BasePayees
    /\ transactions \in {<<>>, <<ShopPayment>>}
    /\ rules \in RuleTables(F_description, P_shop, P_other, 0 - 3500)
    /\ monitored_payees = <<Target>>

\* the Transactions table varies, for the posted path of a payee
ShopTxnScenario ==
    /\ today = Day0
    /\ accounts = <<Visa>>
    /\ payees = BasePayees
    /\ transactions \in SeqsUpTo(ShopTxnsNear, MaxTxns)
    /\ rules \in {<<>>, <<ShopRule>>}
    /\ monitored_payees = <<Target>>

PayeeNames ==
    {None, JStr(<<>>), JStr(<<"T", "a">>), JStr(<<"t", "A">>),
     JStr(<<"x", "T", "A">>), JStr(<<"T">>)}

MonitoredNames ==
    {JStr(<<"T", "a">>), JStr(<<"t", "a">>), JStr(<<"a", "T">>), JStr(<<>>)}

\* the Payees table and the monitored names vary
PayeeNameScenario ==
    /\ today = Day0
    /\ accounts = <<Visa>>
    /\ payees \in
         {<<Payee(P_shop, n, None, d)>> \o second :
             n \in PayeeNames, d \in {0, 1},
             second \in {<<>>, <<Payee(P_other, JStr(<<"T", "a">>), None, 0)>>,
                         <<Payee(P_other, JStr(<<"B">>), None, 0)>>}}
    /\ transactions \in {<<>>, <<ShopPayment>>,
                          <<Transaction(A2, Key(1), P_other, 0 - 900)>>}
    /\ rules \in {<<>>, <<ShopRule>>}
    /\ monitored_payees \in SeqsUpTo(MonitoredNames, MaxMonitored)

\* the accounts vary: their names and their balances
AccountScenario ==
    /\ today = Day0
    /\ accounts \in
         {<<Account(A1, n, b)>> \o second :
             n \in {JStr(<<"$", "V">>), JStr(<<"V", "$">>), JStr(<<"$">>),
                    JStr(<<>>), None},
             b \in {None, JInt(0), JInt(100), JInt(0 - 100)},
             second \in {<<>>} \cup
                        {<<Account(A2, JStr(<<"$", "M">>), c)>> :
                            c \in {None, JInt(0), JInt(0 - 100)}}}
    /\ payees = BasePayees
    /\ transactions \in {<<>>, <<CardPayment>>,
                          <<Transaction(A2, Key(1), P_self, 4000)>>}
    /\ rules \in {<<>>, <<CardRule>>}
    /\ monitored_payees = <<>>

IdleState ==
    /\ pc = "window"
    /\ start_date_int = 0
    /\ end_date_int = 0
    /\ today_int = 0
    /\ credit_cards = <<>>
    /\ idx = 1
    /\ payment = None
    /\ path = <<>>
    /\ cc_missing_payments = <<>>
    /\ cc_has_payments = <<>>
    /\ payee_missing_payments = <<>>
    /\ payee_has_payments = <<>>
    /\ results = None
    /\ output = <<>>
    /\ escaped = FALSE

\* the clock varies, the store is fixed
WindowScenario ==
    /\ today \in {Ordinal(2023, 12, 1) + n : n \in 0..MaxDay}
    /\ accounts = <<Visa, Checking>>
    /\ payees = BasePayees
    /\ transactions = <<CardPayment, ShopPayment>>
    /\ rules = <<CardRule, ShopRule>>
    /\ monitored_payees = <<Target>>

\* the Transactions table varies, for the posted path of an account
CardTxnScenario ==
    /\ today = Day0
    /\ accounts = <<Visa, Checking>>
    /\ payees = BasePayees
    /\ transactions \in SeqsUpTo(CardTxnsNear, MaxTxns)
                         \cup {<<t>> : t \in CardTxnsAll}
    /\ rules \in {<<>>, <<CardRule>>}
    /\ monitored_payees = <<Target>>

\* the store answers every call; the run is started through main()
Reliable == entry = "main" /\ faulty = FALSE

\* the store may fail at any call; both entry points
FaultScenario ==
    /\ entry \in {"main", "run_report"}
    /\ faulty = TRUE
    /\ today = Day0
    /\ accounts \in {<<>>, <<Visa, Checking>>,
                      <<Visa, Account(A2, JStr(<<"$", "M">>), JInt(0 - 100))>>}
    /\ payees = BasePayees
    /\ transactions \in {<<>>, <<CardPayment>>, <<CardPayment, ShopPayment>>}
    /\ rules \in {<<>>, <<CardRule, ShopRule>>}
    /\ monitored_payees \in SeqsUpTo({Target}, MaxMonitored)

Init ==
    /\ IdleState
    /\ \/ /\ Reliable
          /\ \/ WindowScenario
             \/ CardTxnScenario
             \/ ShopTxnScenario
             \/ CardRuleScenario
             \/ ShopRuleScenario
             \/ PayeeNameScenario
             \/ AccountScenario
       \/ FaultScenario

Spec == Init /\ [][Next]_vars

-----------------------------------------------------------------------------
(* What the report is expected to do, stated on the tables themselves *)

\* the YYYYMMDD integer of a calendar date
Ymd(c) == c.year * 10000 + c.month * 100 + c.day

\* the account or payee the loop is at
CurrentAccount == credit_cards[idx]
CurrentName == monitored_payees[idx]

\* t is a posted payment into the account
QualifiesPosted(t, account) ==
    /\ t.acct = account.id
    /\ t.tombstone = 0
    /\ t.is_parent = 0
    /\ start_date_int <= t.date /\ t.date <= end_date_int
    /\ \E p \in Range(payees) :
          /\ p.id = t.payee_id
          /\ p.transfer_acct # None
          /\ p.transfer_acct # account.id
    /\ t.amount > 0

PostedInfo(t) ==
    [date |-> t.date, amount |-> [num |-> t.amount, den |-> 100],
     notes |-> t.notes, is_scheduled |-> FALSE]

\* C2: right after the posted search of an account, a PaymentInfo was
\* returned iff some transaction of the table is of that account,
\* non-deleted, not a split parent, dated in [start, end], to a payee with a
\* transfer account other than the account, and of positive amount; and the
\* PaymentInfo is that of such a transaction.
PostedIffQualifying ==
    pc = "cc_check" =>
        /\ payment # None <=>
             \E t \in Range(transactions) : QualifiesPosted(t, CurrentAccount)
        /\ payment # None =>
             \E t \in Range(transactions) :
                 QualifiesPosted(t, CurrentAccount) /\ payment = PostedInfo(t)

\* a posted payment was found behind a transaction that fails one condition
PostedFoundAfterOther ==
    /\ pc = "cc_check"
    /\ payment # None
    /\ Len(transactions) = 2
    /\ ~QualifiesPosted(transactions[1], CurrentAccount)
    /\ QualifiesPosted(transactions[2], CurrentAccount)

\* C10 as claimed: the posted payment returned is one of the earliest date
\* among the qualifying transactions.
PostedIsEarliest ==
    (pc = "cc_check" /\ payment # None) =>
        \A t \in Range(transactions) :
            QualifiesPosted(t, CurrentAccount) => payment.date <= t.date

\* C10 as amended: the posted payment returned is the first qualifying
\* transaction in the order the store returns them.
PostedIsFirstInStoreOrder ==
    (pc = "cc_check" /\ payment # None) =>
        \E j \in 1..Len(transactions) :
            /\ QualifiesPosted(transactions[j], CurrentAccount)
            /\ \A i \in 1..(j - 1) :
                   ~QualifiesPosted(transactions[i], CurrentAccount)
            /\ payment = PostedInfo(transactions[j])

\* two qualifying transactions, the later-dated one first in the table
PostedLaterOneFirst ==
    /\ pc = "cc_check"
    /\ Len(transactions) = 2
    /\ QualifiesPosted(transactions[1], CurrentAccount)
    /\ QualifiesPosted(transactions[2], CurrentAccount)
    /\ transactions[1].date > transactions[2].date
    /\ payment # None

\* C8: the window keys are the YYYYMMDD integers of the run date minus 14
\* days, plus 14 days and of the run date itself, they are ordered
\* start <= today <= end, and decoding each key gives back its date.
WindowKeys ==
    pc # "window" =>
        /\ start_date_int = Ymd(Civil(today - 14))
        /\ end_date_int = Ymd(Civil(today + 14))
        /\ today_int = Ymd(Civil(today))
        /\ start_date_int <= today_int
        /\ today_int <= end_date_int
        /\ int_to_date(start_date_int) = JInt(today - 14)
        /\ int_to_date(end_date_int) = JInt(today + 14)
        /\ int_to_date(today_int) = JInt(today)

\* a window that starts in one year and ends in the next
WindowAcrossYears ==
    /\ pc = "done"
    /\ start_date_int \div 10000 < end_date_int \div 10000
    /\ today_int \div 10000 = end_date_int \div 10000

\* a rule column that holds a list of objects (an empty column is an empty list)
ListOfDicts(column) ==
    \/ column = None
    \/ /\ column.json.k = "list"
       /\ \A j \in 1..Len(column.json.items) : column.json.items[j].k = "dict"

ItemsOf(column) == IF column = None THEN <<>> ELSE column.json.items

\* the value of the last condition on field, None if there is none
LastValue(conds, field) ==
    LET at == {j \in 1..Len(conds) : Get(conds[j], "field") = field}
    IN  IF at = {} THEN None
        ELSE Get(conds[CHOOSE j \in at : \A i \in at : i <= j], "value")

\* a date value that parses: an integer, or digits with dashes
DateParses(v) ==
    \/ v.k = "int"
    \/ v.k = "str" /\ IntOfStr(RemoveDashes(v.s)) # None

DateNumber(v) == IF v.k = "int" THEN v.n ELSE IntOfStr(RemoveDashes(v.s)).n

\* the parsed date of a rule: that of its last date condition that parses
ParsedDate(conds) ==
    LET at == {j \in 1..Len(conds) :
                  /\ Get(conds[j], "field") = F_date
                  /\ DateParses(Get(conds[j], "value"))}
    IN  IF at = {} THEN None
        ELSE JInt(DateNumber(Get(conds[CHOOSE j \in at : \A i \in at : i <= j],
                                 "value")))

\* r is a future scheduled payment addressed to target_id: sign is 1 for an
\* account (money in), -1 for a payee (money out)
QualifiesScheduled(r, ident_field, target_id, sign) ==
    /\ r.tombstone = 0
    /\ ListOfDicts(r.conditions)
    /\ ListOfDicts(r.actions)
    /\ LET conds == ItemsOf(r.conditions)
           acts == ItemsOf(r.actions)
           d == ParsedDate(conds)
           m == LastValue(conds, F_amount)
       IN  /\ LastValue(conds, ident_field) = target_id
           /\ d # None
           /\ today_int < d.n
           /\ d.n <= end_date_int
           /\ m.k = "int"
           /\ m.n # 0
           /\ sign * m.n > 0
           /\ \E j \in 1..Len(acts) : Get(acts[j], "op") = Op_link_schedule

\* p is the scheduled PaymentInfo of rule r
IsScheduledInfoOf(p, r) ==
    LET conds == ItemsOf(r.conditions)
    IN  /\ p # None
        /\ p.is_scheduled
        /\ p.date = ParsedDate(conds).n
        /\ p.amount = [num |-> Abs(LastValue(conds, F_amount).n), den |-> 100]

\* a rule whose payload is malformed: a column that is not a list of
\* objects, no date that parses, or an amount that is not a number
Malformed(r) ==
    \/ ~ListOfDicts(r.conditions)
    \/ ~ListOfDicts(r.actions)
    \/ LET conds == ItemsOf(r.conditions)
       IN  \/ ParsedDate(conds) = None
           \/ LastValue(conds, F_amount).k # "int"

\* the scheduled path has run for the current target, and what it looked for
AccountScheduledRan == pc = "cc_file" /\ path = <<"posted", "scheduled">>
PayeeScheduledRan == pc = "payee_file" /\ path = <<"posted", "scheduled">>

QualifiesForAccount(r) == QualifiesScheduled(r, F_acct, CurrentAccount.id, 1)

\* the payee the current monitored name resolves to
Resolved == MatchingPayee(CurrentName)

QualifiesForPayee(r) ==
    Resolved # None /\ QualifiesScheduled(r, F_description, Resolved.id, 0 - 1)

\* C3: when the scheduled search has run for a target, it returned a
\* PaymentInfo iff some non-deleted rule addressed to the target has a parsed
\* date d with today < d <= end, a nonzero amount of the direction's sign and
\* a link-schedule action; the PaymentInfo is marked scheduled and is that
\* of such a rule.
ScheduledIffQualifying ==
    /\ AccountScheduledRan =>
          /\ payment # None <=> \E r \in Range(rules) : QualifiesForAccount(r)
          /\ payment # None =>
                \E r \in Range(rules) :
                    QualifiesForAccount(r) /\ IsScheduledInfoOf(payment, r)
    /\ PayeeScheduledRan =>
          /\ payment # None <=> \E r \in Range(rules) : QualifiesForPayee(r)
          /\ payment # None =>
                \E r \in Range(rules) :
                    QualifiesForPayee(r) /\ IsScheduledInfoOf(payment, r)

\* a rule dated on the last day of the window was found for a payee
ScheduledOnLastDay ==
    /\ PayeeScheduledRan
    /\ payment # None
    /\ payment.date = end_date_int
    /\ payment.is_scheduled

\* C6: no exception leaves a scheduled scan, rules with a malformed payload
\* do not match, and the first qualifying rule is returned whatever rules
\* stand before it.
MalformedRulesSkipped ==
    /\ pc # "raised"
    /\ AccountScheduledRan =>
          /\ (\A r \in Range(rules) : Malformed(r)) => payment = None
          /\ \A n \in 1..Len(rules) :
                (/\ QualifiesForAccount(rules[n])
                 /\ \A j \in 1..(n - 1) : ~QualifiesForAccount(rules[j]))
                => IsScheduledInfoOf(payment, rules[n])
    /\ PayeeScheduledRan =>
          /\ (\A r \in Range(rules) : Malformed(r)) => payment = None
          /\ \A n \in 1..Len(rules) :
                (/\ QualifiesForPayee(rules[n])
                 /\ \A j \in 1..(n - 1) : ~QualifiesForPayee(rules[j]))
                => IsScheduledInfoOf(payment, rules[n])

\* a qualifying rule was found behind a live malformed rule
FoundBehindMalformed ==
    /\ AccountScheduledRan
    /\ Len(rules) = MaxRules
    /\ \A j \in 1..(MaxRules - 1) : rules[j].tombstone = 0 /\ Malformed(rules[j])
    /\ QualifiesForAccount(rules[MaxRules])
    /\ IsScheduledInfoOf(payment, rules[MaxRules])

\* t is a posted payment out to the payee
QualifiesPayeePosted(t, payee) ==
    /\ t.payee_id = payee.id
    /\ t.tombstone = 0
    /\ t.is_parent = 0
    /\ start_date_int <= t.date /\ t.date <= end_date_int
    /\ t.amount < 0

PostedExistsForAccount ==
    \E t \in Range(transactions) : QualifiesPosted(t, CurrentAccount)

PostedExistsForPayee ==
    /\ Resolved # None
    /\ \E t \in Range(transactions) : QualifiesPayeePosted(t, Resolved)

\* C1: for every target the posted search runs first; when a posted
\* transaction qualifies its PaymentInfo (not scheduled) is the one filed
\* and the scheduled search is not run, even if a rule qualifies too; the
\* scheduled search runs exactly when the posted search found nothing.
PostedBeforeScheduled ==
    /\ pc \in {"cc_check", "cc_file", "payee_check", "payee_file"} =>
          Len(path) >= 1 /\ path[1] = "posted"
    /\ pc = "cc_file" =>
          IF PostedExistsForAccount
          THEN payment # None /\ ~payment.is_scheduled /\ path = <<"posted">>
          ELSE path = <<"posted", "scheduled">>
    /\ pc = "payee_file" =>
          IF PostedExistsForPayee
          THEN payment # None /\ ~payment.is_scheduled /\ path = <<"posted">>
          ELSE path = <<"posted", "scheduled">>

\* a posted transaction and a rule both qualify for the account being filed
BothQualify ==
    /\ pc = "cc_file"
    /\ PostedExistsForAccount
    /\ \E r \in Range(rules) : QualifiesForAccount(r)
    /\ payment # None

\* C7: for a name that resolves to a payee, the posted search returns None
\* iff no non-deleted, non-split-parent transaction to that payee dated in
\* [start, end] has a negative amount; otherwise it returns one of the
\* greatest date among them, with the absolute value of its amount.
PayeePostedMostRecent ==
    (pc = "payee_check" /\ Resolved # None) =>
        LET cands == {t \in Range(transactions) :
                         QualifiesPayeePosted(t, Resolved)}
        IN  /\ payment = None <=> cands = {}
            /\ payment # None =>
                 \E t \in cands :
                     /\ \A u \in cands : u.date <= t.date
                     /\ payment.date = t.date
                     /\ payment.amount = [num |-> 0 - t.amount, den |-> 100]
                     /\ ~payment.is_scheduled

\* two payments to the payee, the older one first in the table
PayeePostedTwoDates ==
    /\ pc = "payee_check"
    /\ Resolved # None
    /\ Len(transactions) = 2
    /\ QualifiesPayeePosted(transactions[1], Resolved)
    /\ QualifiesPayeePosted(transactions[2], Resolved)
    /\ transactions[1].date < transactions[2].date
    /\ payment # None
    /\ payment.date = transactions[2].date

\* an account the report monitors: its name starts with the card marker
Monitored(a) == a.name # None /\ a.name.s # <<>> /\ a.name.s[1] = "$"

PaymentExists(a) ==
    \/ \E t \in Range(transactions) : QualifiesPosted(t, a)
    \/ \E r \in Range(rules) : QualifiesScheduled(r, F_acct, a.id, 1)

Listed(reports, a) ==
    \E j \in 1..Len(reports) : reports[j].account_name = a.name

\* C4: in the returned result a monitored account (told apart by its name,
\* as in the report) is in cc_passed iff a payment exists for it, in
\* cc_missing iff none exists and its balance is neither null nor zero, and
\* never in both; the two lists hold nothing but monitored accounts.
AccountsClassified ==
    pc = "done" =>
        /\ \A a \in Range(accounts) :
              IF Monitored(a)
              THEN /\ Listed(results.cc_passed, a) <=> PaymentExists(a)
                   /\ Listed(results.cc_missing, a) <=>
                        /\ ~PaymentExists(a)
                        /\ a.balance_current # None
                        /\ a.balance_current # JInt(0)
                   /\ ~(Listed(results.cc_passed, a)
                        /\ Listed(results.cc_missing, a))
              ELSE ~Listed(results.cc_passed, a)
                   /\ ~Listed(results.cc_missing, a)
        /\ \A j \in 1..Len(results.cc_passed) :
              /\ results.cc_passed[j].has_payment
              /\ results.cc_passed[j].payment_info # None
        /\ \A j \in 1..Len(results.cc_missing) :
              /\ ~results.cc_missing[j].has_payment
              /\ results.cc_missing[j].payment_info = None

\* two monitored accounts without a payment: the one with no balance is in
\* neither list, the one with a balance is in cc_missing
ZeroBalanceLeftOut ==
    /\ pc = "done"
    /\ \E a, b \in Range(accounts) :
          /\ Monitored(a) /\ Monitored(b)
          /\ ~PaymentExists(a) /\ ~PaymentExists(b)
          /\ a.balance_current \in {None, JInt(0)}
          /\ ~Listed(results.cc_passed, a) /\ ~Listed(results.cc_missing, a)
          /\ b.balance_current = JInt(0 - 100)
          /\ Listed(results.cc_missing, b)

\* the same letter, whatever its case
SameLetter(c, d) == c = d \/ {c, d} \in {{"T", "t"}, {"A", "a"}}

\* sub is a case-insensitive substring of s
InsideIgnoringCase(sub, s) ==
    \E j \in 0..(Len(s) - Len(sub)) :
        \A i \in 1..Len(sub) : SameLetter(s[j + i], sub[i])

NameKnown(name) ==
    \E p \in Range(payees) :
        /\ p.tombstone = 0
        /\ p.name # None
        /\ InsideIgnoringCase(name.s, p.name.s)

PayeeListed(reports, name) ==
    \E j \in 1..Len(reports) : reports[j].payee_name = name

\* C5: in the returned result every monitored name is in exactly one of
\* payee_passed and payee_missing and every name got one entry; a name that
\* is inside no non-deleted payee's name (ignoring case) is in payee_missing
\* with has_payment false and no PaymentInfo; no exception was raised.
PayeesClassified ==
    /\ pc # "raised"
    /\ pc = "done" =>
          /\ Len(results.payee_passed) + Len(results.payee_missing)
                = Len(monitored_payees)
          /\ \A j \in 1..Len(monitored_payees) :
                LET name == monitored_payees[j]
                IN  /\ PayeeListed(results.payee_passed, name)
                         # PayeeListed(results.payee_missing, name)
                    /\ ~NameKnown(name) =>
                         /\ PayeeListed(results.payee_missing, name)
                         /\ \A i \in 1..Len(results.payee_missing) :
                               results.payee_missing[i].payee_name = name =>
                                 /\ ~results.payee_missing[i].has_payment
                                 /\ results.payee_missing[i].payment_info = None

\* a monitored name that only a deleted payee carries, with a payment to
\* that payee in the window, ends in payee_missing
UnknownNameMissing ==
    /\ pc = "done"
    /\ Len(monitored_payees) = 1
    /\ ~NameKnown(monitored_payees[1])
    /\ \E p \in Range(payees) :
          /\ p.tombstone = 1
          /\ p.name = monitored_payees[1]
          /\ \E t \in Range(transactions) : QualifiesPayeePosted(t, p)
    /\ PayeeListed(results.payee_missing, monitored_payees[1])

\* the targets the loops have filed so far
AccountsFiled ==
    IF pc \in {"window", "connect"} THEN 0
    ELSE IF pc \in {"cc_loop", "cc_check", "cc_file"} THEN idx - 1
    ELSE Len(credit_cards)

PayeesFiled ==
    IF pc \in {"payee_loop", "payee_check", "payee_file"} THEN idx - 1
    ELSE IF pc \in {"return", "done"} /\ monitored_payees # <<>>
    THEN Len(monitored_payees)
    ELSE IF results # None THEN Len(monitored_payees)
    ELSE IF pc \in {"failed", "exited"} THEN Len(monitored_payees)
    ELSE 0

NonNegative(p) == p # None => p.amount.num >= 0 /\ p.amount.den > 0

\* C9: every PaymentInfo, the one in hand and those of the four lists, has
\* a non-negative amount, and the lists hold at most one entry (so at most
\* one PaymentInfo) for each target filed so far.
AmountsNonNegative ==
    /\ NonNegative(payment)
    /\ \A reports \in {cc_has_payments, cc_missing_payments,
                       payee_has_payments, payee_missing_payments} :
          \A j \in 1..Len(reports) : NonNegative(reports[j].payment_info)
    /\ Len(cc_has_payments) + Len(cc_missing_payments) <= AccountsFiled
    /\ IF results = None /\ pc \in {"failed", "exited"}
       THEN Len(payee_has_payments) + Len(payee_missing_payments)
               <= PayeesFiled
       ELSE Len(payee_has_payments) + Len(payee_missing_payments)
               = PayeesFiled

\* a payee filed with a scheduled payment whose rule amount is negative
ScheduledOutgoingFiled ==
    /\ pc = "done"
    /\ Len(results.payee_passed) = 1
    /\ results.payee_passed[1].payment_info.is_scheduled
    /\ results.payee_passed[1].payment_info.amount.num > 0
    /\ \E r \in Range(rules) :
          LastValue(ItemsOf(r.conditions), F_amount) = JInt(0 - 3500)

\* the lines of the report among those printed so far
ReportPrinted == \E j \in 1..Len(output) : output[j].kind = "report"

\* generate_report has returned a result that files every monitored name
\* and every monitored account but those it leaves out of the report (no
\* payment and a null or zero balance)
ClassificationComplete ==
    /\ results # None
    /\ \A a \in Range(accounts) :
          Monitored(a) =>
             \/ Listed(results.cc_passed, a)
             \/ Listed(results.cc_missing, a)
             \/ ~HasBalance(a) /\ ~PaymentExists(a)
    /\ \A j \in 1..Len(monitored_payees) :
          PayeeListed(results.payee_passed, monitored_payees[j])
             \/ PayeeListed(results.payee_missing, monitored_payees[j])

\* C11: a line of the report is printed only once generate_report has
\* returned with every monitored account and payee classified; while an
\* exception of the store is in flight no line of the report has been
\* printed, and a run whose generate_report did not return ends with the
\* exception having left the run and with no line of the report printed.
ReportOnlyAfterClassification ==
    /\ ReportPrinted => ClassificationComplete
    /\ pc = "failed" => results = None /\ ~ReportPrinted
    /\ pc = "exited" /\ results = None => escaped /\ ~ReportPrinted

\* a run through main() that filed a credit card, then lost the store, and
\* ended with the error line as its last line
StoreLostMidRun ==
    /\ pc = "exited"
    /\ results = None
    /\ entry = "main"
    /\ Len(cc_has_payments) + Len(cc_missing_payments) >= 1
    /\ output[Len(output)] = ErrorLine
    /\ escaped

====
